---------------------------- MODULE Spec2Model ----------------------------
(***************************************************************************)
(* A model of the PDF ingestion pipeline of src/src/data_loader.py         *)
(* (PDFTextExtractor and main) and of the line-delimited JSON validator of *)
(* src/src/imports.py.                                                     *)
(*                                                                         *)
(* Text is a sequence of code points (integers); a filename is a sequence  *)
(* of one-character strings.  The PDF backends, the filesystem and the     *)
(* JSON decoder are external: every call into them is a step whose outcome *)
(* is chosen nondeterministically among the outcomes the call can have.    *)
(***************************************************************************)
EXTENDS Integers, Sequences, FiniteSets, TLC

(***************************************************************************)
(* Bounds of the model.                                                    *)
(***************************************************************************)
\* longest raw text handed to basic_cleaning on its own
MaxLen == 5
\* most pages a backend yields for one document
MaxPages == 1
\* most files of the input directory
MaxFiles == 2

(***************************************************************************)
(* The state.  Each operation studied on its own (basic_cleaning,          *)
(* extract_metadata, generate_extraction_report, validate_jsonl) has its   *)
(* position, its arguments and its result; the variables of main are       *)
(* described with main.                                                    *)
(***************************************************************************)
VARIABLES pc, directory, pdf_files, idx, texts, metadata_dict, text, seen,
          calls, rets, caught, skipped, invoked, disk,
          cpc, craw, cout,
          mpc, mname, mtext, moutcome, mresult,
          rpc, rtexts, rmeta, rreport,
          vpc, lines, ln, parsed, out

cleanVars == <<cpc, craw, cout>>

metaVars == <<mpc, mname, mtext, moutcome, mresult>>

reportVars == <<rpc, rtexts, rmeta, rreport>>

jsonlVars == <<vpc, lines, ln, parsed, out>>

(***************************************************************************)
(* Characters.                                                             *)
(***************************************************************************)
\* Python's str whitespace (str.isspace, and \s of a str pattern) among the
\* code points below U+0100
IsSpace(c) == c \in {9, 10, 11, 12, 13, 28, 29, 30, 31, 32, 133, 160}

\* the character class [\x00-\x08\x0b-\x0c\x0e-\x1f\x7f-\x9f]
IsStrippedCtl(c) == c \in (0..8) \cup (11..12) \cup (14..31) \cup (127..159)

\* "a", " ", "\n", NUL (a stripped control that is no whitespace) and
\* U+001F (a stripped control that is whitespace)
Alphabet == {97, 32, 10, 0, 31}

RECURSIVE SeqsUpTo(_, _)
\* all sequences over S of length at most n
SeqsUpTo(S, n) ==
    IF n = 0 THEN {<<>>}
    ELSE LET shorter == SeqsUpTo(S, n - 1)
         IN  shorter \cup {Append(s, c) : s \in {t \in shorter : Len(t) = n - 1}, c \in S}

(***************************************************************************)
(* str.strip(), str.split() and the three substitutions of basic_cleaning. *)
(***************************************************************************)
RECURSIVE LStrip(_)
LStrip(s) ==
    IF s # <<>> /\ IsSpace(Head(s)) THEN LStrip(Tail(s)) ELSE s

RECURSIVE RStrip(_)
RStrip(s) ==
    IF s # <<>> /\ IsSpace(s[Len(s)]) THEN RStrip(SubSeq(s, 1, Len(s) - 1)) ELSE s

\* text.strip()
Strip(s) == RStrip(LStrip(s))

RECURSIVE SubWhitespace(_)
\* re.sub(r'\s+', ' ', text): every maximal run of whitespace becomes one space
SubWhitespace(s) ==
    IF s = <<>> THEN <<>>
    ELSE IF IsSpace(Head(s)) THEN <<32>> \o SubWhitespace(LStrip(s))
    ELSE <<Head(s)>> \o SubWhitespace(Tail(s))

RECURSIVE NewlineRun(_)
\* length of the run of newlines s starts with
NewlineRun(s) ==
    IF s # <<>> /\ Head(s) = 10 THEN 1 + NewlineRun(Tail(s)) ELSE 0

RECURSIVE SubNewlines(_)
\* re.sub(r'\n{3,}', '\n\n', text): a run of three or more newlines becomes two
SubNewlines(s) ==
    IF s = <<>> THEN <<>>
    ELSE LET n == NewlineRun(s)
         IN  IF n >= 3 THEN <<10, 10>> \o SubNewlines(SubSeq(s, n + 1, Len(s)))
             ELSE IF n >= 1 THEN SubSeq(s, 1, n) \o SubNewlines(SubSeq(s, n + 1, Len(s)))
             ELSE <<Head(s)>> \o SubNewlines(Tail(s))

\* re.sub(r'[\x00-\x08\x0b-\x0c\x0e-\x1f\x7f-\x9f]', '', text)
SubControl(s) == SelectSeq(s, LAMBDA c : ~IsStrippedCtl(c))

\* PDFTextExtractor.basic_cleaning
basic_cleaning(raw_text) ==
    Strip(SubControl(SubNewlines(SubWhitespace(raw_text))))

RECURSIVE WordCount(_)
\* len(text.split()): the number of maximal runs of non-whitespace
WordCount(s) ==
    LET t == LStrip(s)
    IN  IF t = <<>> THEN 0
        ELSE LET RECURSIVE SkipWord(_)
                 SkipWord(u) == IF u # <<>> /\ ~IsSpace(Head(u)) THEN SkipWord(Tail(u)) ELSE u
             IN  1 + WordCount(SkipWord(t))

\* len(text.split('\n')): one more than the number of newlines
LineCount(s) == 1 + Len(SelectSeq(s, LAMBDA c : c = 10))

(***************************************************************************)
(* A Python dict: the sequence of its <<key, value>> items in insertion    *)
(* order, no key twice.                                                    *)
(***************************************************************************)
EmptyDict == <<>>

DictKeys(d) == {d[k][1] : k \in DOMAIN d}

DictHas(d, key) == \E k \in DOMAIN d : d[k][1] = key

DictGet(d, key) == d[CHOOSE k \in DOMAIN d : d[k][1] = key][2]

\* d[key] = value: an existing key keeps its place
DictSet(d, key, value) ==
    IF DictHas(d, key)
    THEN [k \in DOMAIN d |-> IF d[k][1] = key THEN <<key, value>> ELSE d[k]]
    ELSE Append(d, <<key, value>>)

\* the values of d in insertion order
DictValues(d) == [k \in DOMAIN d |-> d[k][2]]

(***************************************************************************)
(* Filenames.                                                              *)
(***************************************************************************)
EndsWith(s, suffix) ==
    /\ Len(s) >= Len(suffix)
    /\ SubSeq(s, Len(s) - Len(suffix) + 1, Len(s)) = suffix

\* whether kw occurs in s as a substring (Python's "kw in s")
Contains(s, kw) ==
    \E k \in 0..(Len(s) - Len(kw)) : SubSeq(s, k + 1, k + Len(kw)) = kw

\* the position of the last "." of s, 0 when there is none
LastDot(s) ==
    IF \E k \in DOMAIN s : s[k] = "."
    THEN CHOOSE k \in DOMAIN s : s[k] = "." /\ \A j \in (k + 1)..Len(s) : s[j] # "."
    ELSE 0

\* Path.stem: the name without its last suffix; a leading or a trailing dot
\* starts no suffix
Stem(name) ==
    LET k == LastDot(name)
    IN  IF k > 1 /\ k < Len(name) THEN SubSeq(name, 1, k - 1) ELSE name

UpperCase == <<"A", "B", "C", "D", "E", "F", "G", "H", "I", "J", "K", "L", "M",
               "N", "O", "P", "Q", "R", "S", "T", "U", "V", "W", "X", "Y", "Z">>

LowerCase == <<"a", "b", "c", "d", "e", "f", "g", "h", "i", "j", "k", "l", "m",
               "n", "o", "p", "q", "r", "s", "t", "u", "v", "w", "x", "y", "z">>

\* str.lower() on the ASCII letters
Lower(s) ==
    [k \in DOMAIN s |->
        IF \E u \in DOMAIN UpperCase : UpperCase[u] = s[k]
        THEN LowerCase[CHOOSE u \in DOMAIN UpperCase : UpperCase[u] = s[k]]
        ELSE s[k]]

(***************************************************************************)
(* extract_metadata.                                                       *)
(***************************************************************************)
\* ['mckinsey', 'bain', 'bcg', 'pwc', 'deloitte']
ConsultingKeywords ==
    {<<"m", "c", "k", "i", "n", "s", "e", "y">>,
     <<"b", "a", "i", "n">>,
     <<"b", "c", "g">>,
     <<"p", "w", "c">>,
     <<"d", "e", "l", "o", "i", "t", "t", "e">>}

\* ['mit', 'standford', 'harvard']
AcademicKeywords ==
    {<<"m", "i", "t">>,
     <<"s", "t", "a", "n", "d", "f", "o", "r", "d">>,
     <<"h", "a", "r", "v", "a", "r", "d">>}

\* ['google', 'microsoft', 'openai']
IndustryKeywords ==
    {<<"g", "o", "o", "g", "l", "e">>,
     <<"m", "i", "c", "r", "o", "s", "o", "f", "t">>,
     <<"o", "p", "e", "n", "a", "i">>}

\* ['wef', 'oecd', 'undp', 'iti']
PolicyKeywords ==
    {<<"w", "e", "f">>,
     <<"o", "e", "c", "d">>,
     <<"u", "n", "d", "p">>,
     <<"i", "t", "i">>}

\* any(x in filename_lower for x in keywords)
AnyIn(keywords, filename_lower) == \E x \in keywords : Contains(filename_lower, x)

\* an if/elif chain that tests the Policy keywords first
source_type_policy_first(name) ==
    LET filename_lower == Lower(name)
    IN  IF AnyIn(PolicyKeywords, filename_lower) THEN "Policy"
        ELSE IF AnyIn(ConsultingKeywords, filename_lower) THEN "Consulting"
        ELSE IF AnyIn(AcademicKeywords, filename_lower) THEN "Academic"
        ELSE IF AnyIn(IndustryKeywords, filename_lower) THEN "Industry"
        ELSE "Unknown"

\* the if/elif chain of extract_metadata on pdf_path.name
source_type(name) ==
    LET filename_lower == Lower(name)
    IN  IF AnyIn(ConsultingKeywords, filename_lower) THEN "Consulting"
        ELSE IF AnyIn(AcademicKeywords, filename_lower) THEN "Academic"
        ELSE IF AnyIn(IndustryKeywords, filename_lower) THEN "Industry"
        ELSE IF AnyIn(PolicyKeywords, filename_lower) THEN "Policy"
        ELSE "Unknown"

\* pdf_path.stat().st_size: the environment's answer, fixed per name
st_size(name) == 262144 * Len(name)

\* round(st_size / (1024 * 1024), 2), in hundredths of a megabyte
file_size_mb(name) == (st_size(name) * 200 + 1024 * 1024) \div (2 * 1024 * 1024)

\* what len(pdf_reader.pages) can answer
PageCounts == 0..MaxPages

\* no outcome yet
NoOutcome == [kind |-> "none", pages |-> 0]

\* The outcomes of the try block of extract_metadata: opening the file or
\* building the reader raises; len(pdf_reader.pages) answers n and reading
\* pdf_reader.metadata raises; the document has no properties; it has
\* properties without the four entries; it has properties with them.
MetaOutcomes ==
    {[kind |-> "open_raises", pages |-> 0]}
    \cup [kind : {"metadata_raises", "no_properties", "bare_properties", "properties"},
          pages : PageCounts]

\* the metadata dict before the try block
TextMetadata(name, doc_text) ==
    ("filename" :> name) @@ ("file_size_mb" :> file_size_mb(name))
    @@ ("extraction_date" :> "now") @@ ("char_count" :> Len(doc_text))
    @@ ("word_count" :> WordCount(doc_text)) @@ ("line_count" :> LineCount(doc_text))

\* the entries the try block and its handler leave in the dict
PdfMetadata(outcome) ==
    CASE outcome.kind = "open_raises" -> ("page_count" :> 0)
      [] outcome.kind = "metadata_raises" -> ("page_count" :> 0)
      [] outcome.kind = "no_properties" -> ("page_count" :> outcome.pages)
      [] outcome.kind = "bare_properties" ->
            ("page_count" :> outcome.pages) @@ ("title" :> "") @@ ("author" :> "")
            @@ ("subject" :> "") @@ ("creator" :> "")
      [] outcome.kind = "properties" ->
            ("page_count" :> outcome.pages) @@ ("title" :> "Title")
            @@ ("author" :> "Author") @@ ("subject" :> "Subject")
            @@ ("creator" :> "Creator")

\* PDFTextExtractor.extract_metadata
extract_metadata(name, doc_text, outcome) ==
    TextMetadata(name, doc_text) @@ PdfMetadata(outcome)
    @@ ("source_type" :> source_type(name))

(***************************************************************************)
(* generate_extraction_report.                                             *)
(***************************************************************************)
RECURSIVE SumField(_, _)
\* sum(meta[field] for meta in metas)
SumField(metas, field) ==
    IF metas = <<>> THEN 0 ELSE Head(metas)[field] + SumField(Tail(metas), field)

\* an average guarded by total_docs > 1
AverageWordsGuardOffByOne(total_words, total_docs) ==
    IF total_docs > 1 THEN total_words \div total_docs ELSE 0

\* total_words // total_docs if total_docs > 0 else 0
AverageWords(total_words, total_docs) ==
    IF total_docs > 0 THEN total_words \div total_docs ELSE 0

\* the source types in the order sorted() gives them
SortedSourceTypes == <<"Academic", "Consulting", "Industry", "Policy", "Unknown">>

\* sorted(source_types.items()): the types that occur, each with its count
SourceTypeLines(metas) ==
    LET count(stype) == Cardinality({k \in DOMAIN metas : metas[k]["source_type"] = stype})
        present == SelectSeq(SortedSourceTypes, LAMBDA stype : count(stype) > 0)
    IN  [k \in DOMAIN present |-> <<present[k], count(present[k])>>]

\* the figures of the report, in the order of its lines
generate_extraction_report(texts_, metadata_) ==
    LET metas == DictValues(metadata_)
        total_docs == Len(texts_)
        total_words == SumField(metas, "word_count")
        total_pages == SumField(metas, "page_count")
    IN  [total_docs |-> total_docs,
         total_words |-> total_words,
         total_pages |-> total_pages,
         average_words |-> AverageWords(total_words, total_docs),
         source_types |-> SourceTypeLines(metas),
         details |-> [k \in DOMAIN metas |->
                        <<metas[k]["filename"], metas[k]["word_count"],
                          metas[k]["page_count"], metas[k]["source_type"]>>]]

(***************************************************************************)
(* The input directory.                                                    *)
(***************************************************************************)
PdfSuffix == <<".", "p", "d", "f">>

\* the names a directory is drawn from, in the order a listing gives them
DirOrder ==
    <<<<"m", "i", "t", ".", "p", "d", "f">>,
      <<".", "p", "d", "f", ".", "p", "d", "f">>,
      <<".", "p", "d", "f">>,
      <<"n", ".", "t", "x", "t">>>>

\* raw_path.glob("*.pdf"): the names that end in ".pdf"
GlobPdf(dir) == SelectSeq(DirOrder, LAMBDA n : n \in dir /\ EndsWith(n, PdfSuffix))

\* the directories of at most MaxFiles PDF files
Directories ==
    {d \in SUBSET {DirOrder[k] : k \in DOMAIN DirOrder} : Len(GlobPdf(d)) <= MaxFiles}

\* what page.extract_text() can answer with: "", "a", " " and NUL
PageTexts == {<<>>, <<97>>, <<32>>, <<0>>}

(***************************************************************************)
(* main: the PDFTextExtractor over the input directory.                    *)
(*                                                                         *)
(* pc          where main stands                                           *)
(* directory   the names in the raw directory                              *)
(* pdf_files   the listing process_all_pdfs works through                  *)
(* idx         the index i of the file being processed                     *)
(* texts, metadata_dict   the two result dicts                             *)
(* text        the variable text of the strategy or of extract_text        *)
(* seen        the pages the running strategy has been given               *)
(* calls       the strategies extract_text has invoked for this file       *)
(* rets        what each of them returned for this file                    *)
(* caught      the strategies whose handler caught a failure for this file *)
(* skipped     the files process_all_pdfs skipped                          *)
(* invoked     the operations invoked so far                               *)
(* disk        the processed directory: its folders and files              *)
(***************************************************************************)
pipeVars == <<pc, directory, pdf_files, idx, texts, metadata_dict, text, seen,
              calls, rets, caught, skipped, invoked, disk>>

NoRets == [pdfplumber |-> <<>>, pypdf2 |-> <<>>]

EmptyDisk == [dirs |-> {}, texts |-> {}, metadata |-> <<>>, report |-> <<>>]

\* PDFTextExtractor.__init__: the processed folders are made
Construct ==
    /\ pc = "start"
    /\ UNCHANGED <<cleanVars, metaVars, reportVars, jsonlVars>>
    /\ disk' = [disk EXCEPT !.dirs = {"processed", "processed/texts", "processed/metadata"}]
    /\ pc' = "list"
    /\ UNCHANGED <<directory, pdf_files, idx, texts, metadata_dict, text, seen,
                   calls, rets, caught, skipped, invoked>>

\* process_all_pdfs up to its loop: no PDF file, and it returns two empty dicts
ListPdfs ==
    /\ pc = "list"
    /\ UNCHANGED <<cleanVars, metaVars, reportVars, jsonlVars>>
    /\ pdf_files' = GlobPdf(directory)
    /\ invoked' = invoked \cup {"process_all_pdfs"}
    /\ texts' = EmptyDict
    /\ metadata_dict' = EmptyDict
    /\ IF pdf_files' = <<>>
       THEN pc' = "returned" /\ idx' = idx
       ELSE pc' = "file" /\ idx' = 1
    /\ UNCHANGED <<directory, text, seen, calls, rets, caught, skipped, disk>>

\* the method process_all_pdfs leaves extract_text to default to
DefaultMethod == "pdfplumber"

\* extract_text: the choice of the strategy
ExtractText ==
    /\ pc = "file"
    /\ UNCHANGED <<cleanVars, metaVars, reportVars, jsonlVars>>
    /\ invoked' = invoked \cup {"extract_text"}
    /\ calls' = <<>>
    /\ rets' = NoRets
    /\ caught' = {}
    /\ pc' = IF DefaultMethod = "pdfplumber" THEN "plumber_open" ELSE "pypdf2_open"
    /\ UNCHANGED <<directory, pdf_files, idx, texts, metadata_dict, text, seen,
                   skipped, disk>>

\* except Exception: the warning is printed and the strategy goes on to its
\* return statement
CatchFailure(strategy, ret_pc) ==
    /\ caught' = caught \cup {strategy}
    /\ pc' = ret_pc

\* extract_with_pdfplumber: text = "" and pdfplumber.open
PlumberOpen ==
    /\ pc = "plumber_open"
    /\ UNCHANGED <<cleanVars, metaVars, reportVars, jsonlVars>>
    /\ text' = <<>>
    /\ seen' = 0
    /\ calls' = Append(calls, "pdfplumber")
    /\ \E opened \in BOOLEAN :
          IF opened THEN pc' = "plumber_pages" /\ caught' = caught
          ELSE CatchFailure("pdfplumber", "plumber_ret")
    /\ UNCHANGED <<directory, pdf_files, idx, texts, metadata_dict, rets,
                   skipped, invoked, disk>>

\* extract_with_pdfplumber: one turn of "for page in pdf.pages", the pages
\* being over, the backend raising, or a page and its text
PlumberPage ==
    /\ pc = "plumber_pages"
    /\ UNCHANGED <<cleanVars, metaVars, reportVars, jsonlVars>>
    /\ \/ /\ pc' = "plumber_ret"
          /\ UNCHANGED <<text, seen, caught>>
       \/ /\ CatchFailure("pdfplumber", "plumber_ret")
          /\ UNCHANGED <<text, seen>>
       \/ /\ seen < MaxPages
          /\ seen' = seen + 1
          /\ \E absent \in BOOLEAN, page_text \in PageTexts :
                text' = IF ~absent /\ page_text # <<>>
                        THEN text \o page_text \o <<10>>
                        ELSE text
          /\ UNCHANGED <<pc, caught>>
    /\ UNCHANGED <<directory, pdf_files, idx, texts, metadata_dict, calls, rets,
                   skipped, invoked, disk>>

\* a fallback test that takes only the empty string for "no text"
NeedsFallbackEmptyOnly(t) == t = <<>>

\* not text.strip(): the test that sends extract_text to PyPDF2
NeedsFallback(t) == Strip(t) = <<>>

\* extract_text: pdfplumber has returned
PlumberReturn ==
    /\ pc = "plumber_ret"
    /\ UNCHANGED <<cleanVars, metaVars, reportVars, jsonlVars>>
    /\ rets' = [rets EXCEPT !.pdfplumber = text]
    /\ pc' = IF NeedsFallback(text) THEN "pypdf2_open" ELSE "clean"
    /\ UNCHANGED <<directory, pdf_files, idx, texts, metadata_dict, text, seen,
                   calls, caught, skipped, invoked, disk>>

\* extract_with_pypdf2: text = "", open and PyPDF2.PdfReader
PyPdf2Open ==
    /\ pc = "pypdf2_open"
    /\ UNCHANGED <<cleanVars, metaVars, reportVars, jsonlVars>>
    /\ text' = <<>>
    /\ seen' = 0
    /\ calls' = Append(calls, "pypdf2")
    /\ \E opened \in BOOLEAN :
          IF opened THEN pc' = "pypdf2_pages" /\ caught' = caught
          ELSE CatchFailure("pypdf2", "pypdf2_ret")
    /\ UNCHANGED <<directory, pdf_files, idx, texts, metadata_dict, rets,
                   skipped, invoked, disk>>

\* extract_with_pypdf2: one turn of "for page in pdf_reader.pages"; a page
\* without text makes page.extract_text() + "\n" raise
PyPdf2Page ==
    /\ pc = "pypdf2_pages"
    /\ UNCHANGED <<cleanVars, metaVars, reportVars, jsonlVars>>
    /\ \/ /\ pc' = "pypdf2_ret"
          /\ UNCHANGED <<text, seen, caught>>
       \/ /\ CatchFailure("pypdf2", "pypdf2_ret")
          /\ UNCHANGED <<text, seen>>
       \/ /\ seen < MaxPages
          /\ seen' = seen + 1
          /\ \E absent \in BOOLEAN, page_text \in PageTexts :
                IF absent
                THEN CatchFailure("pypdf2", "pypdf2_ret") /\ text' = text
                ELSE text' = text \o page_text \o <<10>> /\ UNCHANGED <<pc, caught>>
    /\ UNCHANGED <<directory, pdf_files, idx, texts, metadata_dict, calls, rets,
                   skipped, invoked, disk>>

\* extract_text: PyPDF2 has returned
PyPdf2Return ==
    /\ pc = "pypdf2_ret"
    /\ UNCHANGED <<cleanVars, metaVars, reportVars, jsonlVars>>
    /\ rets' = [rets EXCEPT !.pypdf2 = text]
    /\ pc' = "clean"
    /\ UNCHANGED <<directory, pdf_files, idx, texts, metadata_dict, text, seen,
                   calls, caught, skipped, invoked, disk>>

\* extract_text: text = self.basic_cleaning(text); return text
CleanText ==
    /\ pc = "clean"
    /\ UNCHANGED <<cleanVars, metaVars, reportVars, jsonlVars>>
    /\ text' = basic_cleaning(text)
    /\ pc' = "extracted"
    /\ UNCHANGED <<directory, pdf_files, idx, texts, metadata_dict, seen, calls,
                   rets, caught, skipped, invoked, disk>>

\* not text.strip(): the test by which process_all_pdfs skips a file
NoTextExtracted(t) == Strip(t) = <<>>

\* the for loop of process_all_pdfs goes to its next file, or is over; what
\* was recorded about the calls made for the file is dropped
NextFile ==
    /\ idx' = idx + 1
    /\ pc' = IF idx < Len(pdf_files) THEN "file" ELSE "returned"
    /\ seen' = 0 /\ calls' = <<>> /\ rets' = NoRets /\ caught' = {}

\* process_all_pdfs: the file is skipped
SkipFile ==
    /\ pc = "extracted"
    /\ UNCHANGED <<cleanVars, metaVars, reportVars, jsonlVars>>
    /\ NoTextExtracted(text)
    /\ skipped' = skipped \cup {pdf_files[idx]}
    /\ NextFile
    /\ UNCHANGED <<directory, pdf_files, texts, metadata_dict, text, invoked, disk>>

\* process_all_pdfs: the metadata are extracted and both dicts get the entry
StoreFile ==
    /\ pc = "extracted"
    /\ UNCHANGED <<cleanVars, metaVars, reportVars, jsonlVars>>
    /\ ~NoTextExtracted(text)
    /\ invoked' = invoked \cup {"extract_metadata"}
    /\ \E outcome \in MetaOutcomes :
          LET doc_id == Stem(pdf_files[idx])
              metadata == extract_metadata(pdf_files[idx], text, outcome)
          IN  /\ texts' = DictSet(texts, doc_id, text)
              /\ metadata_dict' = DictSet(metadata_dict, doc_id, metadata)
    /\ NextFile
    /\ UNCHANGED <<directory, pdf_files, text, skipped, disk>>

\* a test that never ends main early
NoTextsNever(t) == FALSE

\* not texts: the test by which main ends early
NoTexts(t) == t = EmptyDict

\* main: no text extracted, and it returns
MainReturnsEarly ==
    /\ pc = "returned"
    /\ UNCHANGED <<cleanVars, metaVars, reportVars, jsonlVars>>
    /\ NoTexts(texts)
    /\ pc' = "done"
    /\ UNCHANGED <<directory, pdf_files, idx, texts, metadata_dict, text, seen,
                   calls, rets, caught, skipped, invoked, disk>>

\* save_results: one file per text, then corpus_metadata.json
SaveResults ==
    /\ pc = "returned"
    /\ UNCHANGED <<cleanVars, metaVars, reportVars, jsonlVars>>
    /\ ~NoTexts(texts)
    /\ invoked' = invoked \cup {"save_results"}
    /\ disk' = [disk EXCEPT !.texts = {<<texts[k][1], texts[k][2]>> : k \in DOMAIN texts},
                            !.metadata = <<metadata_dict>>]
    /\ pc' = "saved"
    /\ UNCHANGED <<directory, pdf_files, idx, texts, metadata_dict, text, seen,
                   calls, rets, caught, skipped>>

\* main: the report is generated and written to extraction_report.txt
WriteReport ==
    /\ pc = "saved"
    /\ UNCHANGED <<cleanVars, metaVars, reportVars, jsonlVars>>
    /\ invoked' = invoked \cup {"generate_extraction_report"}
    /\ disk' = [disk EXCEPT !.report = <<generate_extraction_report(texts, metadata_dict)>>]
    /\ pc' = "done"
    /\ UNCHANGED <<directory, pdf_files, idx, texts, metadata_dict, text, seen,
                   calls, rets, caught, skipped>>

vars == <<pipeVars, cleanVars, metaVars, reportVars, jsonlVars>>

\* main is started on a directory
Init ==
    /\ pc = "start" /\ directory \in Directories /\ pdf_files = <<>> /\ idx = 0
    /\ texts = EmptyDict /\ metadata_dict = EmptyDict /\ text = <<>> /\ seen = 0
    /\ calls = <<>> /\ rets = NoRets /\ caught = {} /\ skipped = {}
    /\ invoked = {} /\ disk = EmptyDisk
    /\ cpc = "idle" /\ craw = <<>> /\ cout = <<>>
    /\ mpc = "idle" /\ mname = <<>> /\ mtext = <<>> /\ moutcome = NoOutcome /\ mresult = <<>>
    /\ rpc = "idle" /\ rtexts = EmptyDict /\ rmeta = EmptyDict /\ rreport = <<>>
    /\ vpc = "idle" /\ lines = <<>> /\ ln = 0 /\ parsed = <<>> /\ out = <<>>

Next ==
    \/ Construct \/ ListPdfs \/ ExtractText
    \/ PlumberOpen \/ PlumberPage \/ PlumberReturn
    \/ PyPdf2Open \/ PyPdf2Page \/ PyPdf2Return
    \/ CleanText \/ SkipFile \/ StoreFile
    \/ MainReturnsEarly \/ SaveResults \/ WriteReport

\* one run of main over a directory
Spec == Init /\ [][Next]_vars

(***************************************************************************)
(* basic_cleaning called on its own.                                       *)
(***************************************************************************)
CleanInit ==
    /\ cpc = "call" /\ craw \in SeqsUpTo(Alphabet, MaxLen) /\ cout = <<>>
    /\ pc = "idle" /\ directory = {} /\ pdf_files = <<>> /\ idx = 0
    /\ texts = EmptyDict /\ metadata_dict = EmptyDict /\ text = <<>> /\ seen = 0
    /\ calls = <<>> /\ rets = NoRets /\ caught = {} /\ skipped = {}
    /\ invoked = {} /\ disk = EmptyDisk
    /\ mpc = "idle" /\ mname = <<>> /\ mtext = <<>> /\ moutcome = NoOutcome /\ mresult = <<>>
    /\ rpc = "idle" /\ rtexts = EmptyDict /\ rmeta = EmptyDict /\ rreport = <<>>
    /\ vpc = "idle" /\ lines = <<>> /\ ln = 0 /\ parsed = <<>> /\ out = <<>>

\* one call of basic_cleaning on the raw text
CleanCall ==
    /\ cpc = "call"
    /\ cout' = basic_cleaning(craw)
    /\ cpc' = "returned"
    /\ UNCHANGED <<craw, pipeVars, metaVars, reportVars, jsonlVars>>

SpecClean == CleanInit /\ [][CleanCall]_vars

(***************************************************************************)
(* extract_metadata called on its own.                                     *)
(***************************************************************************)
\* most fragments a filename is put together from
MaxFrags == 2

\* the pieces filenames are put together from: keywords of the four sets,
\* upper case, the correct spelling of the misspelt keyword, and pieces that
\* make a keyword only across their joint
Fragments ==
    {<<"b", "a", "i", "n">>,
     <<"W", "E", "F">>,
     <<"M", "i", "t">>,
     <<"s", "t", "a", "n", "d", "f", "o", "r", "d">>,
     <<"s", "t", "a", "n", "f", "o", "r", "d">>,
     <<"o", "p", "e", "n", "a", "i">>,
     <<"b", "a">>,
     <<"i", "n">>,
     <<"i", "t">>,
     <<"i">>,
     <<"x">>}

RECURSIVE Joined(_)
\* the names made of at most n fragments
Joined(n) ==
    IF n = 0 THEN {<<>>}
    ELSE LET shorter == Joined(n - 1)
         IN  shorter \cup {s \o f : s \in shorter, f \in Fragments}

MetaNames == {s \o PdfSuffix : s \in Joined(MaxFrags)}

\* "a", "a a" and "a\na"
MetaTexts == {<<97>>, <<97, 32, 97>>, <<97, 10, 97>>}

MetaInit ==
    /\ mpc = "call" /\ mname \in MetaNames /\ mtext \in MetaTexts
    /\ moutcome = NoOutcome /\ mresult = <<>>
    /\ pc = "idle" /\ directory = {} /\ pdf_files = <<>> /\ idx = 0
    /\ texts = EmptyDict /\ metadata_dict = EmptyDict /\ text = <<>> /\ seen = 0
    /\ calls = <<>> /\ rets = NoRets /\ caught = {} /\ skipped = {}
    /\ invoked = {} /\ disk = EmptyDisk
    /\ cpc = "idle" /\ craw = <<>> /\ cout = <<>>
    /\ rpc = "idle" /\ rtexts = EmptyDict /\ rmeta = EmptyDict /\ rreport = <<>>
    /\ vpc = "idle" /\ lines = <<>> /\ ln = 0 /\ parsed = <<>> /\ out = <<>>

\* one call of extract_metadata, the backend answering with one of its outcomes
MetaCall ==
    /\ mpc = "call"
    /\ \E outcome \in MetaOutcomes :
          /\ moutcome' = outcome
          /\ mresult' = extract_metadata(mname, mtext, outcome)
    /\ mpc' = "returned"
    /\ UNCHANGED <<mname, mtext, pipeVars, cleanVars, reportVars, jsonlVars>>

SpecMeta == MetaInit /\ [][MetaCall]_vars

(***************************************************************************)
(* generate_extraction_report called on its own, on any two dicts.         *)
(***************************************************************************)
\* most documents of a dict
MaxDocs == 2
\* the largest word count and page count of a document
MaxCount == 2

\* the k-th document id: "d", "dd", ...
DocId(k) == [j \in 1..k |-> "d"]

\* the metadata a document can have
ReportMetas ==
    [filename : {<<"f">>}, word_count : 0..MaxCount, page_count : 0..MaxCount,
     source_type : {"Consulting", "Unknown"}]

RECURSIVE Ascending(_)
\* the numbers of S in ascending order
Ascending(S) ==
    IF S = {} THEN <<>>
    ELSE LET m == CHOOSE x \in S : \A y \in S : x <= y
         IN  <<m>> \o Ascending(S \ {m})

\* the dict with the documents of S as keys and f[k] as the value of DocId(k)
DictOf(S, f) ==
    LET order == Ascending(S)
    IN  [k \in DOMAIN order |-> <<DocId(order[k]), f[order[k]]>>]

\* the documents a dict is drawn from
DocNumbers == 1..MaxDocs

ReportInit ==
    /\ rpc = "call"
    /\ \E S \in SUBSET DocNumbers : rtexts = DictOf(S, [k \in S |-> <<97>>])
    /\ \E S \in SUBSET DocNumbers : \E f \in [S -> ReportMetas] : rmeta = DictOf(S, f)
    /\ rreport = <<>>
    /\ pc = "idle" /\ directory = {} /\ pdf_files = <<>> /\ idx = 0
    /\ texts = EmptyDict /\ metadata_dict = EmptyDict /\ text = <<>> /\ seen = 0
    /\ calls = <<>> /\ rets = NoRets /\ caught = {} /\ skipped = {}
    /\ invoked = {} /\ disk = EmptyDisk
    /\ cpc = "idle" /\ craw = <<>> /\ cout = <<>>
    /\ mpc = "idle" /\ mname = <<>> /\ mtext = <<>> /\ moutcome = NoOutcome /\ mresult = <<>>
    /\ vpc = "idle" /\ lines = <<>> /\ ln = 0 /\ parsed = <<>> /\ out = <<>>

\* one call of generate_extraction_report
ReportCall ==
    /\ rpc = "call"
    /\ rreport' = generate_extraction_report(rtexts, rmeta)
    /\ rpc' = "returned"
    /\ UNCHANGED <<rtexts, rmeta, pipeVars, cleanVars, metaVars, jsonlVars>>

SpecReport == ReportInit /\ [][ReportCall]_vars

(***************************************************************************)
(* validate_jsonl.                                                         *)
(*                                                                         *)
(* lines    the lines of the file                                          *)
(* ln       the number i of the line the loop has reached                  *)
(* parsed   the numbers of the lines handed to json.loads, in order        *)
(* out      what was printed                                               *)
(***************************************************************************)
\* most lines of the file
MaxLines == 4

\* the lines a file is made of
JsonLines == {"{\"a\":1}", "[1, 2]", "NOT JSON", ""}

\* whether json.loads(line) returns; it raises json.JSONDecodeError otherwise
JsonLoads(line) == line \in {"{\"a\":1}", "[1, 2]"}

JsonlInit ==
    /\ vpc = "loop" /\ lines \in SeqsUpTo(JsonLines, MaxLines) /\ ln = 1
    /\ parsed = <<>> /\ out = <<>>
    /\ pc = "idle" /\ directory = {} /\ pdf_files = <<>> /\ idx = 0
    /\ texts = EmptyDict /\ metadata_dict = EmptyDict /\ text = <<>> /\ seen = 0
    /\ calls = <<>> /\ rets = NoRets /\ caught = {} /\ skipped = {}
    /\ invoked = {} /\ disk = EmptyDisk
    /\ cpc = "idle" /\ craw = <<>> /\ cout = <<>>
    /\ mpc = "idle" /\ mname = <<>> /\ mtext = <<>> /\ moutcome = NoOutcome /\ mresult = <<>>
    /\ rpc = "idle" /\ rtexts = EmptyDict /\ rmeta = EmptyDict /\ rreport = <<>>

\* a line is read and json.loads returns
ParseLine ==
    /\ vpc = "loop"
    /\ ln <= Len(lines)
    /\ JsonLoads(lines[ln])
    /\ parsed' = Append(parsed, ln)
    /\ ln' = ln + 1
    /\ UNCHANGED <<vpc, lines, out, pipeVars, cleanVars, metaVars, reportVars>>

\* a handler of json.JSONDecodeError without its return: the error is
\* printed and the loop goes on
ParseErrorContinues ==
    /\ vpc = "loop"
    /\ ln <= Len(lines)
    /\ ~JsonLoads(lines[ln])
    /\ parsed' = Append(parsed, ln)
    /\ out' = Append(out, [kind |-> "error", line |-> ln])
    /\ ln' = ln + 1
    /\ UNCHANGED <<vpc, lines, pipeVars, cleanVars, metaVars, reportVars>>

\* a line is read and json.loads raises: "error line i" is printed and the
\* function returns
ParseError ==
    /\ vpc = "loop"
    /\ ln <= Len(lines)
    /\ ~JsonLoads(lines[ln])
    /\ parsed' = Append(parsed, ln)
    /\ out' = Append(out, [kind |-> "error", line |-> ln])
    /\ vpc' = "done"
    /\ UNCHANGED <<lines, ln, pipeVars, cleanVars, metaVars, reportVars>>

\* the file is over: "no problem" is printed
EndOfFile ==
    /\ vpc = "loop"
    /\ ln > Len(lines)
    /\ out' = Append(out, [kind |-> "no problem", line |-> 0])
    /\ vpc' = "done"
    /\ UNCHANGED <<lines, ln, parsed, pipeVars, cleanVars, metaVars, reportVars>>

JsonlNext == ParseLine \/ ParseError \/ EndOfFile

SpecJsonl == JsonlInit /\ [][JsonlNext]_vars

(***************************************************************************)
(* The claims.                                                             *)
(***************************************************************************)
\* whether t is empty or whitespace only
Blank(t) == \A j \in DOMAIN t : IsSpace(t[j])

\* whether s occurs in sequence q
Occurs(q, s) == \E k \in DOMAIN q : q[k] = s

\* process_all_pdfs has returned
Returned == pc \in {"returned", "saved", "done"}

\* C1: after process_all_pdfs, texts and metadata_dict have the same keys,
\* every text is non-empty and not whitespace only, and a file whose cleaned
\* extraction is empty has no entry in either dict, so that save_results
\* writes no texts/<document_id>.txt for it.
C1_SkipOnEmpty ==
    Returned =>
        /\ DictKeys(texts) = DictKeys(metadata_dict)
        /\ \A k \in DOMAIN texts : texts[k][2] # <<>> /\ ~Blank(texts[k][2])
        /\ \A f \in skipped :
              /\ Stem(f) \notin DictKeys(texts)
              /\ Stem(f) \notin DictKeys(metadata_dict)
              /\ \A w \in disk.texts : w[1] # Stem(f)

\* no two files of the listing have the same stem
DistinctStems ==
    \A j, k \in DOMAIN pdf_files : Stem(pdf_files[j]) = Stem(pdf_files[k]) => j = k

\* C1 where no two listed files share a stem: what is left of the claim
\* without the collision of document ids.
C1_SkipOnEmptyDistinctStems == DistinctStems => C1_SkipOnEmpty

\* C2: extract_text calls pdfplumber first; PyPDF2 is called, once and
\* second, exactly when what pdfplumber returned is blank, and the value
\* returned is the cleaned output of the strategy called last.
C2_FallbackOnce ==
    /\ Occurs(calls, "pypdf2") =>
          calls = <<"pdfplumber", "pypdf2">> /\ Blank(rets.pdfplumber)
    /\ pc \in {"clean", "extracted"} =>
          IF Blank(rets.pdfplumber)
          THEN calls = <<"pdfplumber", "pypdf2">>
          ELSE calls = <<"pdfplumber">>
    /\ pc = "extracted" =>
          IF Blank(rets.pdfplumber)
          THEN text = basic_cleaning(rets.pypdf2)
          ELSE text = basic_cleaning(rets.pdfplumber)

\* C2: pdfplumber returned whitespace, PyPDF2 was called and its cleaned
\* output is what extract_text returns.
C2_Witness ==
    /\ pc = "extracted"
    /\ rets.pdfplumber # <<>>
    /\ calls = <<"pdfplumber", "pypdf2">>
    /\ rets.pypdf2 # <<>>
    /\ text # <<>>

\* C3: a failure of the backend inside a strategy is caught there and the
\* strategy returns the empty string, so that every file of the listing is
\* processed.
C3_FailureGivesEmpty ==
    /\ pc = "plumber_ret" /\ "pdfplumber" \in caught => text = <<>>
    /\ pc = "pypdf2_ret" /\ "pypdf2" \in caught => text = <<>>
    /\ Returned => idx = Len(pdf_files) + 1 \/ pdf_files = <<>>

\* the keys section 3 of the spec calls fixed and required
RequiredKeys ==
    {"filename", "file_size_mb", "extraction_date", "char_count", "word_count",
     "line_count", "page_count", "title", "author", "subject", "creator",
     "source_type"}

\* C4: the dict extract_metadata returns has every required key; on a failure
\* page_count is 0, without properties or on a failure the four descriptive
\* fields are empty strings, and the counts are those of the text.
C4_RequiredKeys ==
    mpc = "returned" =>
        /\ RequiredKeys \subseteq DOMAIN mresult
        /\ moutcome.kind \in {"open_raises", "metadata_raises"} =>
              mresult["page_count"] = 0
        /\ moutcome.kind \in {"open_raises", "metadata_raises", "no_properties"} =>
              /\ mresult["title"] = "" /\ mresult["author"] = ""
              /\ mresult["subject"] = "" /\ mresult["creator"] = ""
        /\ mresult["char_count"] = Len(mtext)
        /\ mresult["word_count"] = WordCount(mtext)
        /\ mresult["line_count"] = LineCount(mtext)

\* C5: the output of basic_cleaning has no two whitespace characters in a
\* row, no control character of the stripped ranges, and no whitespace at
\* either end.
C5_CleanOutput ==
    cpc = "returned" =>
        /\ \A j \in 1..(Len(cout) - 1) : ~(IsSpace(cout[j]) /\ IsSpace(cout[j + 1]))
        /\ \A j \in DOMAIN cout : ~IsStrippedCtl(cout[j])
        /\ cout # <<>> => ~IsSpace(cout[1]) /\ ~IsSpace(cout[Len(cout)])

\* whether a keyword of the set is in the name, letter case aside
HasKeyword(name, keywords) ==
    \E kw \in keywords, k \in 0..Len(name) :
        /\ k + Len(kw) <= Len(name)
        /\ \A j \in DOMAIN kw : Lower(<<name[k + j]>>) = <<kw[j]>>

\* C6: source_type is Consulting, Academic, Industry, Policy or Unknown; the
\* first of the four keyword sets, in that order, with a keyword in the
\* lower-cased filename decides, and Unknown means that no set has one.
C6_SourceType ==
    mpc = "returned" =>
        LET st == mresult["source_type"]
            consulting == HasKeyword(mname, ConsultingKeywords)
            academic == HasKeyword(mname, AcademicKeywords)
            industry == HasKeyword(mname, IndustryKeywords)
            policy == HasKeyword(mname, PolicyKeywords)
        IN  /\ st \in {"Consulting", "Academic", "Industry", "Policy", "Unknown"}
            /\ st = "Consulting" <=> consulting
            /\ st = "Academic" <=> ~consulting /\ academic
            /\ st = "Industry" <=> ~consulting /\ ~academic /\ industry
            /\ st = "Policy" <=> ~consulting /\ ~academic /\ ~industry /\ policy
            /\ st = "Unknown" <=> ~consulting /\ ~academic /\ ~industry /\ ~policy

\* C6: a filename with a Consulting and a Policy keyword, classified
\* Consulting.
C6_Witness ==
    /\ mpc = "returned"
    /\ HasKeyword(mname, ConsultingKeywords)
    /\ HasKeyword(mname, PolicyKeywords)
    /\ mresult["source_type"] = "Consulting"

\* the numbers of the lines json.loads raises on
BadLines == {k \in DOMAIN lines : ~JsonLoads(lines[k])}

RECURSIVE SumOver(_, _, _)
\* the sum of field over the entries of dict d with their key in K
SumOver(d, K, field) ==
    IF K = {} THEN 0
    ELSE LET key == CHOOSE x \in K : TRUE
         IN  DictGet(d, key)[field] + SumOver(d, K \ {key}, field)

\* C8: the report gives the number of documents, the sums of word_count and
\* of page_count over metadata_dict, and as the average the whole part of
\* words by documents, 0 when there is no document.
C8_ReportTotals ==
    rpc = "returned" =>
        LET docs == Cardinality(DictKeys(rtexts))
            words == SumOver(rmeta, DictKeys(rmeta), "word_count")
            pages == SumOver(rmeta, DictKeys(rmeta), "page_count")
        IN  /\ rreport.total_docs = docs
            /\ rreport.total_words = words
            /\ rreport.total_pages = pages
            /\ docs = 0 => rreport.average_words = 0
            /\ docs > 0 =>
                  /\ rreport.average_words * docs <= words
                  /\ words < (rreport.average_words + 1) * docs

\* C8: no document in texts while metadata_dict has words: the average is 0.
C8_Witness ==
    /\ rpc = "returned"
    /\ rtexts = EmptyDict
    /\ rreport.total_words > 0
    /\ rreport.average_words = 0

\* a file has been written under the processed directory
FilesWritten == disk.texts # {} \/ disk.metadata # <<>> \/ disk.report # <<>>

\* C9: without a PDF file in the directory process_all_pdfs returns two empty
\* dicts and calls neither extract_text nor extract_metadata, and main ends
\* without save_results and without a report; main writes files only when
\* texts is not empty, and the report only after save_results.
C9_NoInput ==
    /\ Returned /\ GlobPdf(directory) = <<>> =>
          /\ texts = EmptyDict /\ metadata_dict = EmptyDict
          /\ invoked = {"process_all_pdfs"}
          /\ ~FilesWritten
    /\ pc = "saved" => texts # EmptyDict
    /\ FilesWritten => texts # EmptyDict /\ "save_results" \in invoked
    /\ disk.report # <<>> =>
          /\ disk.metadata = <<metadata_dict>>
          /\ \A k \in DOMAIN texts : <<texts[k][1], texts[k][2]>> \in disk.texts

\* C9: main has ended on a directory that holds a file and no PDF file.
C9_Witness ==
    /\ pc = "done"
    /\ directory # {}
    /\ pdf_files = <<>>
    /\ invoked = {"process_all_pdfs"}
    /\ ~FilesWritten

\* C10: a file is skipped only after both strategies were tried: when the
\* cleaned text is empty, PyPDF2 has been called.
C10_SkipAfterBoth ==
    pc = "extracted" /\ NoTextExtracted(text) => Occurs(calls, "pypdf2")
=============================================================================
